---- MODULE Spec2Model ----
(***************************************************************************)
(* A model of the three batch scripts of the repository:                   *)
(*   code/filterR.py    the Column Dropper      (specification SpecR)      *)
(*   code/filterVAR.py  the Feature Subsetter   (specification SpecVAR)    *)
(*   data_prep.py       the Transaction Flattener (specification SpecPrep) *)
(* A text is a sequence of one-character strings, a CSV line a sequence of *)
(* texts (its fields), a file a record [exists, lines].  A blank line is   *)
(* the line with no field, <<>>; a line holding one empty field is         *)
(* << <<>> >> (the CSV writer quotes a lone empty field), so the two       *)
(* differ, as they do for the reader.                                      *)
(***************************************************************************)
EXTENDS Integers, Sequences, FiniteSets, TLC

VARIABLES
    \* ---- filterR.py
    sourceFile,       \* SOURCE_FILE on disk
    outputFile,       \* OUTPUT_FILE on disk
    pc,               \* position in main: "start", "loop", "done"
    columns_to_drop,  \* main's local, passed to _write_filtered_csv
    is_first_chunk,   \* _write_filtered_csv's local
    rowsRead,         \* data rows the chunk iterator has handed out
    status,           \* main's return value: "" (none yet), "0", "1"
    exc,              \* the exception that left main, "" if none
    stderr,           \* what was printed to sys.stderr
    stdout,           \* what was printed to standard output
    run,              \* 1: first invocation, 2: invocation on the previous output
    \* ---- filterVAR.py
    COLUMN_GROUPS,    \* the group table, <<group "com", group "aut">>
    defaultSource,    \* DEFAULT_SOURCE on disk
    fallbackSource,   \* FALLBACK_SOURCE on disk
    subsetFile,       \* filterVAR's OUTPUT_FILE on disk
    source,           \* the file _select_source_file returned, "" if none
    dataset,          \* what build_dataset returned
    subsetStatus,     \* main's return value: "" (none yet), "0", "1"
    subsetError,      \* the message main printed to sys.stderr, <<>> if none
    \* ---- data_prep.py
    record,           \* the record of tps_sale_transactions_en.json
    df,               \* the data frame, once json_normalize has built it
    prepPc,           \* position in the script: "load", "split", "csv", "excel",
                      \* "done", or "raised" when an exception ended it
    prepExc,          \* the exception that ended the script, "" if none
    csvOut,           \* tps_sale_transactions_en.csv on disk
    xlsxOut           \* tps_sale_transactions_en.xlsx on disk

varsR == <<sourceFile, outputFile, pc, columns_to_drop, is_first_chunk,
           rowsRead, status, exc, stderr, stdout, run>>

varsVAR == <<COLUMN_GROUPS, defaultSource, fallbackSource, subsetFile, source,
             dataset, subsetStatus, subsetError>>

varsPrep == <<record, df, prepPc, prepExc, csvOut, xlsxOut>>

vars == <<varsR, varsVAR, varsPrep>>

----------------------------------------------------------------------------
(* Bounds of the model.                                                    *)
MaxCols == 2
MaxRows == 3
MaxPairs == 2      \* predictor pairs declared in COLUMN_GROUPS, all groups together
MaxSubsetRows == 1 \* data rows of the Feature Subsetter's input files
MaxTextLen == 4    \* characters of a compound field of the Transaction Flattener

\* CHUNK_SIZE = 50_000 in the source; scaled down so that a file of MaxRows
\* rows spans several blocks, the last one partial.
CHUNK_SIZE == 2

----------------------------------------------------------------------------
(* Generic helpers.                                                        *)

Range(s) == {s[i] : i \in 1..Len(s)}

Min(a, b) == IF a < b THEN a ELSE b

\* All sequences over S of length at most n.
SeqsUpTo(S, n) == UNION {[1..k -> S] : k \in 0..n}

\* Sequences without repetition.
IsInjective(s) == \A i, j \in 1..Len(s) : s[i] = s[j] => i = j

\* Python s[:n]
Take(s, n) == SubSeq(s, 1, Min(n, Len(s)))

NoFile == [exists |-> FALSE, lines |-> <<>>]
FileOf(lines) == [exists |-> TRUE, lines |-> lines]

----------------------------------------------------------------------------
(* pandas' CSV reader and writer, as far as the scripts use them.          *)

\* read_csv skips blank lines (skip_blank_lines=True).
NonBlank(lines) == SelectSeq(lines, LAMBDA l : l # <<>>)

\* pd.read_csv raises EmptyDataError when no line is left to parse a header from.
EmptyData(file) == NonBlank(file.lines) = <<>>

CsvColumns(file) == Head(NonBlank(file.lines))
CsvRows(file) == Tail(NonBlank(file.lines))

\* A field as the reader types it.
IsIntText(t) == t # <<>> /\ \A i \in 1..Len(t) : t[i] \in {"0", "1", "2"}
IsFloatText(t) ==
    /\ Len(t) >= 3
    /\ IsIntText(SubSeq(t, 1, Len(t) - 2))
    /\ SubSeq(t, Len(t) - 1, Len(t)) = <<".", "0">>
IsNumberText(t) == IsIntText(t) \/ IsFloatText(t)

\* The dtype read_csv infers for one column of one block: int64 when every
\* field is an integer, float64 when every field is a number or missing,
\* object (the texts as they are) otherwise.
ColumnDtype(fields) ==
    IF fields # <<>> /\ \A i \in 1..Len(fields) : IsIntText(fields[i]) THEN "int64"
    ELSE IF \A i \in 1..Len(fields) : fields[i] = <<>> \/ IsNumberText(fields[i])
         THEN "float64"
    ELSE "object"

\* to_csv's text for a field read as `t` in a column of dtype `dtype`.
FormatField(t, dtype) ==
    IF dtype = "float64" /\ IsIntText(t) THEN t \o <<".", "0">> ELSE t

\* The scalar a field stands for: missing, or the number / text itself.
CellValue(t) ==
    IF t = <<>> THEN <<"NaN">>
    ELSE IF IsFloatText(t) THEN SubSeq(t, 1, Len(t) - 2)
    ELSE t

----------------------------------------------------------------------------
(* filterR.py                                                              *)

SOURCE_FILE == "Data/Q1_Q260_filtered_30%row_and_column.csv"
OUTPUT_FILE == "Data/Q1_Q260_filtered_30%row_and_column_no_R.csv"

\* The default of _columns_to_drop's parameter `suffix`.
SUFFIX == <<"R">>

\* str.endswith
EndsWith(s, suffix) ==
    /\ Len(s) >= Len(suffix)
    /\ SubSeq(s, Len(s) - Len(suffix) + 1, Len(s)) = suffix

\* Mutant: the test is made on the start of the name instead of its end.
_columns_to_drop_startswith(columns, suffix) ==
    SelectSeq(columns, LAMBDA column :
        Len(column) >= Len(suffix) /\ SubSeq(column, 1, Len(suffix)) = suffix)

_columns_to_drop(columns, suffix) ==
    SelectSeq(columns, LAMBDA column : EndsWith(column, suffix))

\* Positions of the columns chunk.drop(columns=..., errors="ignore") keeps.
KeptPositions(columns, drop) ==
    SelectSeq([i \in 1..Len(columns) |-> i], LAMBDA i : columns[i] \notin Range(drop))

\* One line restricted to the kept positions.
Project(line, kept) == [j \in 1..Len(kept) |-> line[kept[j]]]

\* The block the chunk iterator hands out after `read` rows: the next
\* CHUNK_SIZE rows, or the rows that are left.
NextChunk(rows, read) == SubSeq(rows, read + 1, Min(read + CHUNK_SIZE, Len(rows)))

\* The lines to_csv writes for a filtered block: every column is formatted
\* with the dtype the reader inferred for it in this block.
ChunkLines(columns, chunk, kept) ==
    [r \in 1..Len(chunk) |->
        [j \in 1..Len(kept) |->
            FormatField(chunk[r][kept[j]],
                        ColumnDtype([q \in 1..Len(chunk) |-> chunk[q][kept[j]]]))]]

\* Mutant: every block is written with its header (header=True throughout).
to_csv_header_every_chunk(file, columns, chunk, kept, first) ==
    FileOf((IF first THEN <<>> ELSE file.lines)
           \o <<Project(columns, kept)>> \o ChunkLines(columns, chunk, kept))

\* filtered_chunk.to_csv(OUTPUT_FILE, mode=..., header=..., index=False):
\* mode "w" replaces the file and the header line is written, mode "a"
\* appends the rows alone.  With every column dropped the header line and
\* the row lines have no field: the file is made of blank lines.
to_csv(file, columns, chunk, kept, first) ==
    LET body == ChunkLines(columns, chunk, kept)
        head == IF first THEN <<Project(columns, kept)>> ELSE <<>>
    IN  FileOf((IF first THEN <<>> ELSE file.lines) \o head \o body)

ColumnNames == {<<"A">>, <<"B", "_", "R">>, <<"R", "x">>, <<"D", "_", "R">>}
CellTexts == {<<>>, <<"1">>}

Headers == {h \in SeqsUpTo(ColumnNames, MaxCols) : IsInjective(h)}

\* Well-formed CSV text: a header line of distinct names (read_csv makes
\* repeated names distinct) and `n` rows of as many fields.
CsvLines(h, n) == {<<h>> \o rows : rows \in [1..n -> [1..Len(h) -> CellTexts]]}

StaleOutput == FileOf(<< <<<<"Z">>>>, <<<<"2">>>> >>)

\* The variables of filterR.py while another script is the one modelled.
IdleR ==
    /\ sourceFile = NoFile
    /\ outputFile = NoFile
    /\ pc = "idle"
    /\ columns_to_drop = <<>>
    /\ is_first_chunk = TRUE
    /\ rowsRead = 0
    /\ status = ""
    /\ exc = ""
    /\ stderr = <<>>
    /\ stdout = <<>>
    /\ run = 1

\* The variables of filterVAR.py while another script is the one modelled.
IdleVAR ==
    /\ COLUMN_GROUPS = <<>>
    /\ defaultSource = NoFile
    /\ fallbackSource = NoFile
    /\ subsetFile = NoFile
    /\ source = "idle"
    /\ dataset = <<>>
    /\ subsetStatus = ""
    /\ subsetError = <<>>

\* The variables of data_prep.py while another script is the one modelled.
IdlePrep ==
    /\ record = <<>>
    /\ df = <<>>
    /\ prepPc = "idle"
    /\ prepExc = ""
    /\ csvOut = [exists |-> FALSE]
    /\ xlsxOut = [exists |-> FALSE]

InitR ==
    /\ IdleVAR
    /\ IdlePrep
    /\ \/ sourceFile = NoFile
       \/ \E h \in Headers, n \in 0..MaxRows :
             \E lines \in CsvLines(h, n) : sourceFile = FileOf(lines)
    /\ outputFile \in {NoFile, StaleOutput}
    /\ pc = "start"
    /\ columns_to_drop = <<>>
    /\ is_first_chunk = TRUE
    /\ rowsRead = 0
    /\ status = ""
    /\ exc = ""
    /\ stderr = <<>>
    /\ stdout = <<>>
    /\ run = 1

\* main, lines 47-54: the source file does not exist.
MainSourceMissing ==
    /\ pc = "start"
    /\ ~ sourceFile.exists
    /\ stderr' = Append(stderr, <<"Source file not found. Expected input at ", SOURCE_FILE>>)
    /\ status' = "1"
    /\ pc' = "done"
    /\ UNCHANGED <<sourceFile, outputFile, columns_to_drop, is_first_chunk,
                   rowsRead, exc, stdout, run, varsVAR, varsPrep>>

\* main, line 57: pd.read_csv finds no header line and raises; nothing in
\* main catches it.
MainEmptyData ==
    /\ pc = "start"
    /\ sourceFile.exists
    /\ EmptyData(sourceFile)
    /\ stdout' = Append(stdout, <<"Loading column headers">>)
    /\ exc' = "EmptyDataError"
    /\ pc' = "done"
    /\ UNCHANGED <<sourceFile, outputFile, columns_to_drop, is_first_chunk,
                   rowsRead, status, stderr, run, varsVAR, varsPrep>>

\* main, lines 56-62: no column ends with the suffix.
MainNothingToFilter ==
    /\ pc = "start"
    /\ sourceFile.exists
    /\ ~ EmptyData(sourceFile)
    /\ _columns_to_drop(CsvColumns(sourceFile), SUFFIX) = <<>>
    /\ columns_to_drop' = <<>>
    /\ stdout' = stdout \o <<<<"Loading column headers">>,
                             <<"No columns ending with 'R' found; nothing to filter.">>>>
    /\ status' = "0"
    /\ pc' = "done"
    /\ UNCHANGED <<sourceFile, outputFile, is_first_chunk, rowsRead, exc, stderr, run,
                   varsVAR, varsPrep>>

\* main, lines 56-70: the drop set is computed from the first block's header
\* and _write_filtered_csv is entered.
MainBeginFilter ==
    /\ pc = "start"
    /\ sourceFile.exists
    /\ ~ EmptyData(sourceFile)
    /\ LET drop == _columns_to_drop(CsvColumns(sourceFile), SUFFIX)
       IN  /\ drop # <<>>
           /\ columns_to_drop' = drop
           /\ stdout' = stdout \o <<<<"Loading column headers">>,
                                    <<"Dropping columns (sample): ">> \o Take(drop, 5)
                                       \o (IF Len(drop) > 5 THEN <<"...">> ELSE <<>>)>>
    /\ is_first_chunk' = TRUE
    /\ rowsRead' = 0
    /\ pc' = "loop"
    /\ UNCHANGED <<sourceFile, outputFile, status, exc, stderr, run, varsVAR, varsPrep>>

\* _write_filtered_csv, lines 35-43: one iteration of the loop.  The reader
\* hands out an empty first block for a file that has a header and no row.
WriteChunk ==
    /\ pc = "loop"
    /\ is_first_chunk \/ rowsRead < Len(CsvRows(sourceFile))
    /\ LET columns == CsvColumns(sourceFile)
           chunk == NextChunk(CsvRows(sourceFile), rowsRead)
           kept == KeptPositions(columns, columns_to_drop)
       IN  /\ outputFile' = to_csv(outputFile, columns, chunk, kept, is_first_chunk)
           /\ rowsRead' = rowsRead + Len(chunk)
    /\ is_first_chunk' = FALSE
    /\ UNCHANGED <<sourceFile, pc, columns_to_drop, status, exc, stderr, stdout, run,
                   varsVAR, varsPrep>>

\* main, lines 72-76: the iterator is exhausted, main reports and returns 0.
MainReturn ==
    /\ pc = "loop"
    /\ ~ is_first_chunk
    /\ rowsRead = Len(CsvRows(sourceFile))
    /\ stdout' = Append(stdout, <<"Filtered dataset written to ", OUTPUT_FILE,
                                  " columns removed: ", Len(columns_to_drop)>>)
    /\ status' = "0"
    /\ pc' = "done"
    /\ UNCHANGED <<sourceFile, outputFile, columns_to_drop, is_first_chunk,
                   rowsRead, exc, stderr, run, varsVAR, varsPrep>>

\* The script is run again on what it wrote: the previous output is put in
\* the place of SOURCE_FILE and main starts anew.
RunOnOwnOutput ==
    /\ pc = "done"
    /\ run = 1
    /\ status = "0"
    /\ columns_to_drop # <<>>
    /\ sourceFile' = outputFile
    /\ run' = 2
    /\ pc' = "start"
    /\ columns_to_drop' = <<>>
    /\ is_first_chunk' = TRUE
    /\ rowsRead' = 0
    /\ status' = ""
    /\ stdout' = <<>>
    /\ UNCHANGED <<outputFile, exc, stderr, varsVAR, varsPrep>>

NextR ==
    \/ MainSourceMissing
    \/ MainEmptyData
    \/ MainNothingToFilter
    \/ MainBeginFilter
    \/ WriteChunk
    \/ MainReturn
    \/ RunOnOwnOutput

SpecR == InitR /\ [][NextR]_vars

----------------------------------------------------------------------------
(* filterVAR.py                                                            *)

TARGET_COLUMN == "Q49"
TARGET_RENAMED == "LifeSat"

\* COLUMN_GROUPS is a table edited in the source.  The model lets it be any
\* table of two groups ("com", then "aut"), each an ordered mapping from
\* source column to new name (a dict: no source column twice in one group),
\* with at most MaxPairs pairs in all.  A pair is <<source column, new name>>.
PredictorSources == {"Q47", "Q48"}
PredictorNames == {"SHealth", "FreeChoice", "LifeSat"}

IsMapping(group) == \A i, j \in 1..Len(group) : group[i][1] = group[j][1] => i = j

GroupsOfSize(n) ==
    {g \in [1..n -> PredictorSources \X PredictorNames] : IsMapping(g)}

\* The columns an input file may hold, and the headers made of them.
FileColumns == {"Q47", "Q48", "Q49"}
SubsetHeaders ==
    {h \in SeqsUpTo(FileColumns, Cardinality(FileColumns)) : IsInjective(h)}
        \cup {<<"Q1", "Q48", "Q49", "Q47">>}

\* A field of an input file: it names the file, the column and the row it
\* stands in, so that no two fields of the two inputs are equal.
Field(file, column, row) == <<file, column, row>>

SubsetInput(file, header, n) ==
    FileOf(<<header>> \o [r \in 1..n |-> [j \in 1..Len(header) |-> Field(file, header[j], r)]])

\* sorted() on the column identifiers of the model.
IdOrder == <<"Q1", "Q47", "Q48", "Q49">>
Sorted(ids) == SelectSeq(IdOrder, LAMBDA id : id \in ids)

RECURSIVE Flatten(_)
Flatten(ss) == IF ss = <<>> THEN <<>> ELSE Head(ss) \o Flatten(Tail(ss))

\* Mutant: the fallback is looked for first.
_select_source_file_fallback_first(default, fallback) ==
    IF fallback.exists THEN "FALLBACK_SOURCE"
    ELSE IF default.exists THEN "DEFAULT_SOURCE"
    ELSE "FileNotFoundError"

_select_source_file(default, fallback) ==
    IF default.exists THEN "DEFAULT_SOURCE"
    ELSE IF fallback.exists THEN "FALLBACK_SOURCE"
    ELSE "FileNotFoundError"

\* Mutant: the groups are walked in reverse.
_column_pairs_reversed(groups) ==
    Flatten([k \in 1..Len(groups) |-> groups[Len(groups) + 1 - k]])

\* (source, renamed) pairs of all groups, in group order, then in the
\* order of declaration within the group.
_column_pairs(groups) == Flatten(groups)

_ordered_columns(groups) ==
    <<TARGET_RENAMED>> \o [k \in 1..Len(_column_pairs(groups)) |-> _column_pairs(groups)[k][2]]

\* Mutant: only the first missing column (in sorted order) is reported.
_validate_columns_first_only(expected, available) ==
    Take(Sorted(Range(expected) \ Range(available)), 1)

\* _validate_columns: the sorted missing identifiers that the KeyError
\* names; <<>> when nothing is missing and nothing is raised.
_validate_columns(expected, available) ==
    Sorted(Range(expected) \ Range(available))

\* pd.read_csv(source, usecols=lambda col: col in keep_columns): the
\* columns of the file that are in keep_columns, in the file's order.
read_csv_usecols(file, keep_columns) ==
    LET header == CsvColumns(file)
        kept == SelectSeq([i \in 1..Len(header) |-> i],
                          LAMBDA i : header[i] \in Range(keep_columns))
    IN  [columns |-> [j \in 1..Len(kept) |-> header[kept[j]]],
         rows |-> [r \in 1..Len(CsvRows(file)) |->
                      [j \in 1..Len(kept) |-> CsvRows(file)[r][kept[j]]]]]

\* The dict built at lines 143-144: a later pair for the same key replaces
\* an earlier one, the target's entry included.
rename_map(pairs, column) ==
    LET hits == SelectSeq(pairs, LAMBDA p : p[1] = column)
    IN  IF hits # <<>> THEN hits[Len(hits)][2]
        ELSE IF column = TARGET_COLUMN THEN TARGET_RENAMED
        ELSE column

\* frame[labels]: for each label in turn, every column of that name.
SelectColumns(frame, labels) ==
    LET positions ==
            Flatten([k \in 1..Len(labels) |->
                SelectSeq([i \in 1..Len(frame.columns) |-> i],
                          LAMBDA i : frame.columns[i] = labels[k])])
    IN  [columns |-> [j \in 1..Len(positions) |-> frame.columns[positions[j]]],
         rows |-> [r \in 1..Len(frame.rows) |->
                      [j \in 1..Len(positions) |-> frame.rows[r][positions[j]]]]]

NoFrame == [columns |-> <<>>, rows |-> <<>>]
Raised(kind, message, src) ==
    [exc |-> kind, message |-> message, source |-> src, frame |-> NoFrame]

\* build_dataset: the frame it returns, or the exception it raises.
build_dataset(groups, default, fallback) ==
    LET src == _select_source_file(default, fallback)
        file == IF src = "DEFAULT_SOURCE" THEN default ELSE fallback
        predictor_pairs == _column_pairs(groups)
        keep_columns == <<TARGET_COLUMN>>
                            \o [k \in 1..Len(predictor_pairs) |-> predictor_pairs[k][1]]
        frame == read_csv_usecols(file, keep_columns)
        missing == _validate_columns(keep_columns, frame.columns)
        renamed == [columns |-> [j \in 1..Len(frame.columns) |->
                                    rename_map(predictor_pairs, frame.columns[j])],
                    rows |-> frame.rows]
        ordered == _ordered_columns(groups)
    IN  IF src = "FileNotFoundError"
        THEN Raised("FileNotFoundError",
                    <<"Neither filtered nor raw WVS CSV found.">>, "")
        ELSE IF Len(keep_columns) = 1
        THEN Raised("ValueError",
                    <<"Populate COLUMN_GROUPS before running the script.">>, src)
        ELSE IF EmptyData(file)
        THEN Raised("EmptyDataError", <<"No columns to parse from file">>, src)
        ELSE IF missing # <<>>
        THEN Raised("KeyError", <<"Missing columns in source CSV. Missing: ">> \o missing, src)
        ELSE IF ~ (Range(ordered) \subseteq Range(renamed.columns))
        THEN Raised("KeyError", <<"not in index">>, src)
        ELSE [exc |-> "", message |-> <<>>, source |-> src,
              frame |-> SelectColumns(renamed, ordered)]

\* dataset.to_csv(OUTPUT_FILE, index=False)
frame_to_csv(frame) == FileOf(<<frame.columns>> \o frame.rows)

\* Both input files, when they exist, hold the same number of rows; their
\* headers are chosen independently and their fields differ by their tag.
InitVAR ==
    /\ IdleR
    /\ IdlePrep
    /\ \E n1 \in 0..MaxPairs :
         \E n2 \in 0..(MaxPairs - n1) :
           \E g1 \in GroupsOfSize(n1), g2 \in GroupsOfSize(n2) :
              COLUMN_GROUPS = <<g1, g2>>
    /\ \E n \in 0..MaxSubsetRows :
          /\ \/ defaultSource = NoFile
             \/ \E h \in SubsetHeaders : defaultSource = SubsetInput("default", h, n)
          /\ \/ fallbackSource = NoFile
             \/ \E h \in SubsetHeaders : fallbackSource = SubsetInput("fallback", h, n)
    /\ subsetFile = NoFile
    /\ source = ""
    /\ dataset = NoFrame
    /\ subsetStatus = ""
    /\ subsetError = <<>>

\* main, lines 151-155: build_dataset raised; the message is printed and 1
\* is returned.
SubsetMainFails ==
    /\ subsetStatus = ""
    /\ source = ""
    /\ LET built == build_dataset(COLUMN_GROUPS, defaultSource, fallbackSource)
       IN  /\ built.exc # ""
           /\ subsetError' = <<"Error while constructing SDT feature set: ">> \o built.message
           /\ source' = IF built.source = "" THEN "none" ELSE built.source
    /\ subsetStatus' = "1"
    /\ UNCHANGED <<COLUMN_GROUPS, defaultSource, fallbackSource, subsetFile, dataset, varsR,
                   varsPrep>>

\* main, lines 151-159: build_dataset returned; the frame is saved and 0
\* is returned.
SubsetMainSaves ==
    /\ subsetStatus = ""
    /\ source = ""
    /\ LET built == build_dataset(COLUMN_GROUPS, defaultSource, fallbackSource)
       IN  /\ built.exc = ""
           /\ dataset' = built.frame
           /\ subsetFile' = frame_to_csv(built.frame)
           /\ source' = built.source
    /\ subsetStatus' = "0"
    /\ UNCHANGED <<COLUMN_GROUPS, defaultSource, fallbackSource, subsetError, varsR,
                   varsPrep>>

NextVAR ==
    \/ SubsetMainFails
    \/ SubsetMainSaves

SpecVAR == InitVAR /\ [][NextVAR]_vars

----------------------------------------------------------------------------
(* data_prep.py                                                            *)

\* JSON null / Python None as a field value; a text otherwise.
None == <<"None">>

\* A float column's cell: a number or null.
Null == [isnull |-> TRUE, value |-> 0]
Float(n) == [isnull |-> FALSE, value |-> n]

Digits == <<"0", "1", "2", "3", "4", "5", "6", "7", "8", "9">>
IsDigits(t) == t # <<>> /\ \A i \in 1..Len(t) : t[i] \in Range(Digits)
DigitValue(c) == (CHOOSE i \in 1..Len(Digits) : Digits[i] = c) - 1

RECURSIVE DecimalValue(_)
DecimalValue(t) ==
    IF t = <<>> THEN 0
    ELSE 10 * DecimalValue(SubSeq(t, 1, Len(t) - 1)) + DigitValue(t[Len(t)])

\* float(t) on the texts of the model: a run of digits is the number it
\* writes, anything else (the empty text, a text with "/") is a ValueError.
FloatRaises(t) == ~ IsDigits(t)
float(t) == Float(DecimalValue(t))

\* str.split("/")
RECURSIVE split(_)
split(t) ==
    IF \A i \in 1..Len(t) : t[i] # "/" THEN <<t>>
    ELSE LET i == CHOOSE k \in 1..Len(t) :
                     t[k] = "/" /\ \A q \in 1..(k - 1) : t[q] # "/"
         IN  <<SubSeq(t, 1, i - 1)>> \o split(SubSeq(t, i + 1, Len(t)))

\* Python truthiness of a field: None and the empty text are falsy.
Truthy(x) == x # None /\ x # <<>>

\* lambda x: float(x) if x else None   (lines 16-19)
CoerceRaises(x) == Truthy(x) /\ FloatRaises(x)
Coerce(x) == IF Truthy(x) THEN float(x) ELSE Null

\* Mutant: the part before the slash is taken whatever the index.
SplitPart_always_first(x, index) ==
    IF Truthy(x) THEN float(split(x)[1]) ELSE Null

\* lambda x: float(x.split('/')[index]) if x else None   (lines 22-25;
\* index is 0-based as in the source)
SplitPartRaises(x, index) ==
    IF ~ Truthy(x) THEN FALSE
    ELSE IF Len(split(x)) < index + 1 THEN TRUE
    ELSE FloatRaises(split(x)[index + 1])
SplitPart(x, index) ==
    IF Truthy(x) THEN float(split(x)[index + 1]) ELSE Null

\* The exception lines 22-25 end with: an index past the parts is an
\* IndexError, a part that is no number a ValueError.
SplitError(x, index) ==
    IF Len(split(x)) < index + 1 THEN "IndexError" ELSE "ValueError"

ScalarFields == <<"estate_map_latitude", "estate_map_longitude",
                  "transaction_price", "discount_rate">>
CompoundFields == <<"saleable_floor_area", "transaction_price_per_sq">>

TextChars == {"1", "/"}
CompoundInputs == {None} \cup UNION {[1..k -> TextChars] : k \in 0..MaxTextLen}
ScalarInputs == {None, <<"1">>, <<"/">>}

Records ==
    [estate_map_latitude : ScalarInputs, estate_map_longitude : ScalarInputs,
     transaction_price : ScalarInputs, discount_rate : ScalarInputs,
     saleable_floor_area : CompoundInputs, transaction_price_per_sq : CompoundInputs]

NoFrameYet == [columns |-> <<>>, row |-> <<>>]
Written(frame) == [exists |-> TRUE, columns |-> frame.columns, row |-> frame.row]

InitPrep ==
    /\ IdleR
    /\ IdleVAR
    /\ record \in Records
    /\ df = NoFrameYet
    /\ prepPc = "load"
    /\ prepExc = ""
    /\ csvOut = [exists |-> FALSE]
    /\ xlsxOut = [exists |-> FALSE]

\* The first of the lines 16-19 whose lambda raises, 0 if none does.
FirstCoerceFailure ==
    IF \E k \in 1..Len(ScalarFields) : CoerceRaises(record[ScalarFields[k]])
    THEN CHOOSE k \in 1..Len(ScalarFields) :
            /\ CoerceRaises(record[ScalarFields[k]])
            /\ \A q \in 1..(k - 1) : ~ CoerceRaises(record[ScalarFields[q]])
    ELSE 0

\* Lines 5-19: the record becomes a one-row frame and the four numeric
\* columns are converted in place.
PrepCoerce ==
    /\ prepPc = "load"
    /\ FirstCoerceFailure = 0
    /\ df' = [columns |-> ScalarFields \o CompoundFields,
              row |-> [f \in Range(ScalarFields) \cup Range(CompoundFields) |->
                         IF f \in Range(ScalarFields) THEN Coerce(record[f]) ELSE record[f]]]
    /\ prepPc' = "split"
    /\ UNCHANGED <<record, prepExc, csvOut, xlsxOut, varsR, varsVAR>>

\* Lines 16-19: float() raises on a text that is no number; nothing
\* catches it and the script ends.
PrepCoerceRaises ==
    /\ prepPc = "load"
    /\ FirstCoerceFailure # 0
    /\ prepExc' = "ValueError"
    /\ prepPc' = "raised"
    /\ UNCHANGED <<record, df, csvOut, xlsxOut, varsR, varsVAR>>

\* The (field, index) of lines 22-25 in order.
SplitLines == << <<"saleable_floor_area", 0>>, <<"saleable_floor_area", 1>>,
                 <<"transaction_price_per_sq", 0>>, <<"transaction_price_per_sq", 1>> >>

SplitLineRaises(k) == SplitPartRaises(df.row[SplitLines[k][1]], SplitLines[k][2])

\* Lines 22-25: the four derived columns are appended.
PrepSplit ==
    /\ prepPc = "split"
    /\ \A k \in 1..Len(SplitLines) : ~ SplitLineRaises(k)
    /\ LET derived ==
              [f \in {"saleable_floor_area_per_sq_m", "saleable_floor_area_per_sq_ft",
                      "transaction_price_per_sq_m", "transaction_price_per_sq_ft"} |->
                 CASE f = "saleable_floor_area_per_sq_m" ->
                          SplitPart(df.row["saleable_floor_area"], 0)
                   [] f = "saleable_floor_area_per_sq_ft" ->
                          SplitPart(df.row["saleable_floor_area"], 1)
                   [] f = "transaction_price_per_sq_m" ->
                          SplitPart(df.row["transaction_price_per_sq"], 0)
                   [] f = "transaction_price_per_sq_ft" ->
                          SplitPart(df.row["transaction_price_per_sq"], 1)]
       IN  df' = [columns |-> df.columns \o
                      <<"saleable_floor_area_per_sq_m", "saleable_floor_area_per_sq_ft",
                        "transaction_price_per_sq_m", "transaction_price_per_sq_ft">>,
                  row |-> df.row @@ derived]
    /\ prepPc' = "csv"
    /\ UNCHANGED <<record, prepExc, csvOut, xlsxOut, varsR, varsVAR>>

\* Lines 22-25: a lambda raises on a compound value without a second part
\* or with a part that is no number; nothing catches it and the script ends
\* before either output is written.
PrepSplitRaises ==
    /\ prepPc = "split"
    /\ \E k \in 1..Len(SplitLines) :
          /\ SplitLineRaises(k)
          /\ \A q \in 1..(k - 1) : ~ SplitLineRaises(q)
          /\ prepExc' = SplitError(df.row[SplitLines[k][1]], SplitLines[k][2])
    /\ prepPc' = "raised"
    /\ UNCHANGED <<record, df, csvOut, xlsxOut, varsR, varsVAR>>

\* Line 28
PrepToCsv ==
    /\ prepPc = "csv"
    /\ csvOut' = Written(df)
    /\ prepPc' = "excel"
    /\ UNCHANGED <<record, df, prepExc, xlsxOut, varsR, varsVAR>>

\* Line 29
PrepToExcel ==
    /\ prepPc = "excel"
    /\ xlsxOut' = Written(df)
    /\ prepPc' = "done"
    /\ UNCHANGED <<record, df, prepExc, csvOut, varsR, varsVAR>>

NextPrep ==
    \/ PrepCoerce
    \/ PrepCoerceRaises
    \/ PrepSplit
    \/ PrepSplitRaises
    \/ PrepToCsv
    \/ PrepToExcel

SpecPrep == InitPrep /\ [][NextPrep]_vars

----------------------------------------------------------------------------
(* Properties of filterR.py.                                               *)

\* The columns of `columns` whose names do not end with the suffix.
Retained(columns) == SelectSeq(columns, LAMBDA c : ~ EndsWith(c, SUFFIX))

\* The position of column `name` in a header of distinct names.
PositionOf(columns, name) == CHOOSE i \in 1..Len(columns) : columns[i] = name

\* `lines` holds the header `Retained(columns)` and then, for each of `rows`
\* in order, the values of that row in the retained columns.
HoldsFiltered(lines, columns, rows) ==
    /\ Len(lines) = 1 + Len(rows)
    /\ lines[1] = Retained(columns)
    /\ \A r \in 1..Len(rows) :
          /\ Len(lines[r + 1]) = Len(lines[1])
          /\ \A j \in 1..Len(lines[1]) :
                CellValue(lines[r + 1][j])
                    = CellValue(rows[r][PositionOf(columns, lines[1][j])])

WroteOutput == pc = "done" /\ status = "0" /\ columns_to_drop # <<>>

C6_RerunYieldsIdenticalDataset ==
    (pc = "done" /\ run = 2) =>
        /\ exc = ""
        /\ status = "0"
        /\ outputFile = sourceFile

\* C7 as claimed: a missing source gives status 1, an error naming the
\* expected path and an untouched output; every other run returns 0.
C7_StatusOneIffSourceMissing ==
    pc = "done" =>
        IF ~ sourceFile.exists
        THEN /\ status = "1"
             /\ stderr = << <<"Source file not found. Expected input at ", SOURCE_FILE>> >>
             /\ outputFile \in {NoFile, StaleOutput}
        ELSE status = "0"

\* C10: throughout the streaming loop the drop set is the one computed from
\* the first block's header, and once k blocks are written the output holds
\* one header line followed by the filtered rows of blocks 1..k in source
\* order (nothing of an earlier output file, no second header); when the
\* loop is over these are all the rows of the source.
C10_BlocksWrittenInOrderUnderOneHeader ==
    (pc = "loop" \/ WroteOutput) =>
        LET columns == CsvColumns(sourceFile)
            rows == CsvRows(sourceFile)
        IN  /\ columns_to_drop = SelectSeq(columns, LAMBDA c : EndsWith(c, SUFFIX))
            /\ rowsRead <= Len(rows)
            /\ rowsRead % CHUNK_SIZE = 0 \/ rowsRead = Len(rows)
            /\ pc = "done" => rowsRead = Len(rows)
            /\ is_first_chunk => rowsRead = 0
            /\ ~ is_first_chunk =>
                  /\ outputFile.exists
                  /\ HoldsFiltered(outputFile.lines, columns, SubSeq(rows, 1, rowsRead))

\* C10 witness: the loop has appended a second block onto an output file
\* that held other content before the run.
C10_Witness ==
    /\ pc = "loop"
    /\ ~ is_first_chunk
    /\ rowsRead > CHUNK_SIZE
    /\ Len(outputFile.lines) = 1 + rowsRead
    /\ outputFile.lines[1] # <<>>

----------------------------------------------------------------------------
(* Properties of filterVAR.py.                                             *)

\* The predictor pairs as declared: group "com" first, then group "aut".
DeclaredPairs == COLUMN_GROUPS[1] \o COLUMN_GROUPS[2]
DeclaredSources == [k \in 1..Len(DeclaredPairs) |-> DeclaredPairs[k][1]]
DeclaredNames == [k \in 1..Len(DeclaredPairs) |-> DeclaredPairs[k][2]]

\* The invariant of the Column Group Mapping: no identifier twice, the
\* target's identifiers counted in.
IdentifiersUnique ==
    /\ IsInjective(<<TARGET_COLUMN>> \o DeclaredSources)
    /\ IsInjective(<<TARGET_RENAMED>> \o DeclaredNames)

SubsetMainOver == subsetStatus # ""

\* The input the source selection policy designates, and its tag.
PolicyInput == IF defaultSource.exists THEN defaultSource ELSE fallbackSource
PolicyTag == IF defaultSource.exists THEN "default" ELSE "fallback"

\* The input was loaded: a file was selected, the table declares a
\* predictor and the reader found a header.
InputLoaded ==
    /\ defaultSource.exists \/ fallbackSource.exists
    /\ DeclaredPairs # <<>>
    /\ ~ EmptyData(PolicyInput)

RequiredMissing ==
    (({TARGET_COLUMN} \cup Range(DeclaredSources)) \ Range(CsvColumns(PolicyInput)))

ValidConfiguration ==
    /\ IdentifiersUnique
    /\ InputLoaded
    /\ RequiredMissing = {}

\* C2: for a valid configuration, whatever the order of the input's
\* columns, build_dataset returns the target under its new name followed by
\* the predictors under theirs, in group order and then declaration order,
\* with one row per input row and every cell equal to the input's cell in
\* the source column of that output column.
C2_SubsetIsRenamedAndOrdered ==
    (SubsetMainOver /\ ValidConfiguration) =>
        LET sources == <<TARGET_COLUMN>> \o DeclaredSources
        IN  /\ subsetStatus = "0"
            /\ dataset.columns = <<TARGET_RENAMED>> \o DeclaredNames
            /\ Len(dataset.rows) = Len(CsvRows(PolicyInput))
            /\ \A r \in 1..Len(dataset.rows) :
                  dataset.rows[r] =
                      [j \in 1..Len(sources) |-> Field(PolicyTag, sources[j], r)]

\* C2 witness: a returned dataset of two groups' predictors and a row, from
\* an input whose columns stand in another order than the output's.
C2_Witness ==
    /\ SubsetMainOver
    /\ ValidConfiguration
    /\ COLUMN_GROUPS[1] # <<>>
    /\ COLUMN_GROUPS[2] # <<>>
    /\ Len(dataset.rows) = 1
    /\ CsvColumns(PolicyInput)[1] # TARGET_COLUMN
    /\ CsvColumns(PolicyInput) # <<TARGET_COLUMN>> \o DeclaredSources

\* The column identifiers that main's error message names.
IdentifiersNamed == Range(subsetError) \cap Range(IdOrder)

\* C3: when a required source column is absent from the loaded input, main
\* returns 1, writes no output file, and its message names every missing
\* identifier (and no other).
C3_MissingColumnsAllReported ==
    (SubsetMainOver /\ InputLoaded /\ RequiredMissing # {}) =>
        /\ subsetStatus = "1"
        /\ subsetFile = NoFile
        /\ IdentifiersNamed = RequiredMissing

\* C3 witness: a run that ended on an input lacking two required columns.
C3_Witness ==
    /\ SubsetMainOver
    /\ InputLoaded
    /\ Cardinality(RequiredMissing) >= 2
    /\ subsetStatus = "1"

\* C5 as claimed: a table that uses an identifier twice is rejected, with
\* status 1 and no output written.
C5_DuplicateIdentifiersRejected ==
    (SubsetMainOver /\ ~ IdentifiersUnique) =>
        /\ subsetStatus = "1"
        /\ subsetFile = NoFile

\* Every cell of the returned dataset is a field of the input tagged `tag`.
DatasetReadFrom(tag) ==
    \A r \in 1..Len(dataset.rows) : \A j \in 1..Len(dataset.rows[r]) :
        dataset.rows[r][j][1] = tag

\* C9: when the pre-filtered file exists it is the file read, whether or
\* not the raw file exists; the raw file is read only when the pre-filtered
\* file is absent and the raw file exists; when neither exists main returns
\* 1 and writes no output.
C9_SourceSelection ==
    SubsetMainOver =>
        /\ defaultSource.exists =>
              source = "DEFAULT_SOURCE" /\ DatasetReadFrom("default")
        /\ (~ defaultSource.exists /\ fallbackSource.exists) =>
              source = "FALLBACK_SOURCE" /\ DatasetReadFrom("fallback")
        /\ (~ defaultSource.exists /\ ~ fallbackSource.exists) =>
              source = "none" /\ subsetStatus = "1" /\ subsetFile = NoFile

\* C9 witness: both files exist and a dataset with a row was saved.
C9_Witness ==
    /\ SubsetMainOver
    /\ defaultSource.exists
    /\ fallbackSource.exists
    /\ subsetStatus = "0"
    /\ Len(dataset.rows) = 1
    /\ subsetFile.exists

----------------------------------------------------------------------------
(* Properties of data_prep.py.                                             *)

\* `x` is "a/b": exactly one slash, a run of digits on either side.
SlashAt(x, i) == i \in 1..Len(x) /\ x[i] = "/"
IsPair(x) ==
    /\ x # None
    /\ Cardinality({i \in 1..Len(x) : x[i] = "/"}) = 1
    /\ \E i \in 1..Len(x) :
          /\ SlashAt(x, i)
          /\ IsDigits(SubSeq(x, 1, i - 1))
          /\ IsDigits(SubSeq(x, i + 1, Len(x)))
BeforeSlash(x) == SubSeq(x, 1, (CHOOSE i \in 1..Len(x) : x[i] = "/") - 1)
AfterSlash(x) == SubSeq(x, (CHOOSE i \in 1..Len(x) : x[i] = "/") + 1, Len(x))

\* A compound value that is neither missing nor "a/b".
Malformed(x) == x # None /\ x # <<>> /\ ~ IsPair(x)

PrepOver == prepPc \in {"done", "raised"}
Derived(field, unit) ==
    CASE field = "saleable_floor_area" /\ unit = "m" -> "saleable_floor_area_per_sq_m"
      [] field = "saleable_floor_area" /\ unit = "ft" -> "saleable_floor_area_per_sq_ft"
      [] field = "transaction_price_per_sq" /\ unit = "m" -> "transaction_price_per_sq_m"
      [] field = "transaction_price_per_sq" /\ unit = "ft" -> "transaction_price_per_sq_ft"

\* C4 as claimed: a malformed compound value gives null in its derived
\* columns, the run is not aborted and both output files are written.
C4_MalformedCompoundGivesNull ==
    PrepOver =>
        \A k \in 1..Len(CompoundFields) :
            (Malformed(record[CompoundFields[k]])
                /\ \A q \in 1..Len(ScalarFields) : ~ CoerceRaises(record[ScalarFields[q]]))
            => /\ prepExc = ""
               /\ csvOut.exists
               /\ xlsxOut.exists
               /\ csvOut.row[Derived(CompoundFields[k], "m")] = Null
               /\ csvOut.row[Derived(CompoundFields[k], "ft")] = Null

\* C8: once the derived columns are computed, for each compound field the
\* _per_sq_m column is a and the _per_sq_ft column is b when the value is
\* "a/b", and both are null when the value is null or empty; the files
\* written hold the same.
C8_CompoundSplit ==
    (prepPc \in {"csv", "excel", "done"}) =>
        \A k \in 1..Len(CompoundFields) :
            LET x == record[CompoundFields[k]]
                m == df.row[Derived(CompoundFields[k], "m")]
                ft == df.row[Derived(CompoundFields[k], "ft")]
            IN  /\ IsPair(x) => m = Float(DecimalValue(BeforeSlash(x)))
                                /\ ft = Float(DecimalValue(AfterSlash(x)))
                /\ (x = None \/ x = <<>>) => m = Null /\ ft = Null
                /\ csvOut.exists => csvOut.row = df.row
                /\ xlsxOut.exists => xlsxOut.row = df.row

\* C8 witness: both files are written, one compound field was "1/11" and
\* the other null.
C8_Witness ==
    /\ prepPc = "done"
    /\ record.saleable_floor_area = <<"1", "/", "1", "1">>
    /\ record.transaction_price_per_sq = None
    /\ xlsxOut.exists
    /\ xlsxOut.row["saleable_floor_area_per_sq_ft"] = Float(11)

====
